---- MODULE Spec2Model ----
(***************************************************************************)
(* Model of video_organizer: the directory walker and its filter          *)
(* (core/_process_media.py), catalog assembly (_get_media_info), the task *)
(* registry (core/_base.py) and the per-file track classification        *)
(* (core/identify/_media_identifier.py).                                  *)
(***************************************************************************)
EXTENDS Integers, Sequences, FiniteSets, TLC

(***************************************************************************)
(* Bounds of the model.                                                    *)
(***************************************************************************)
\* Number of nodes of the modelled directory tree (node 1 is the root path,
\* node n > 1 is an entry of node n \div 2).
NumNodes == 5
\* Number of direct calls of the walker made in one process.
MaxCalls == 2
\* Number of processor constructions attempted in one process.
MaxRuns == 2
\* Longest stream list of a probe document.
MaxStreams == 2
MaxReads == 2
MaxMillis == 60
MaxGets == 1
MaxInfoCalls == 2

(***************************************************************************)
(* Entry names are sequences of characters, so that keyword matching is    *)
(* substring containment and the extension is computed from the name.      *)
(***************************************************************************)
Name_a_mkv == <<"a", ".", "m", "k", "v">>
Name_b_txt == <<"b", ".", "t", "x", "t">>
Name_ab == <<"a", "b">>
Names == {Name_a_mkv, Name_b_txt, Name_ab}

Ext_mkv == <<".", "m", "k", "v">>
Ext_mp4 == <<".", "m", "p", "4">>
Ext_avi == <<".", "a", "v", "i">>
Ext_mov == <<".", "m", "o", "v">>
Ext_wmv == <<".", "w", "m", "v">>
Ext_txt == <<".", "t", "x", "t">>

\* config.py: the default allow-list, used when --extensions is empty.
SUPPORTED_EXTENSIONS == <<Ext_mkv, Ext_mp4, Ext_avi, Ext_mov, Ext_wmv>>

Nodes == 1..NumNodes
Root == 1
Kinds == {"file", "dir", "none"}

VARIABLES
    fs_kind,        \* node -> "file" | "dir" | "none" (the path does not exist)
    fs_name,        \* node -> bare entry name (Path.name)
    cfg,            \* the process's Config: includes, excludes, extensions, no_subdir
    search_default, \* the list object bound to _search_files' default argument
    walk_calls,     \* direct walker calls made so far
    walk_root,      \* root of the last direct walker call (0: none yet)
    walk_status,    \* "none" | "returned" | "raised"
    walk_result,    \* list returned by the last direct walker call
    walk_before,    \* the default list as it was when that call started
    tasks,          \* _Processor._tasks: the registered config paths
    runs,           \* processor constructions attempted so far
    task_error,     \* error raised by the last _Processor.__new__ ("" if none)
    pc,             \* position of the current run
    err,            \* error that ended the current run ("" if none)
    target_files,   \* _target_files of the run
    total_files,    \* _total_files of the run
    processing,     \* loop counter of _get_media_info (enumerate from 1)
    extracted,      \* counter of gate-passing files in _get_media_info
    data,           \* the catalog under construction: key -> per-file record
    probe_log,      \* files handed to MediaInfo so far, in order
    progress_log,   \* progress notifications printed so far
    ffprobe_calls,  \* invocations of the external probe tool so far
    tool_present,   \* whether shutil.which('ffprobe') resolves
    raw_info,       \* probe document of the file being extracted
    info,           \* per-file record under extraction
    tpc,            \* position of the extraction: "ready" | "done"
    _data,          \* the processor's _data attribute: [bound, catalog]
    fail_cause,     \* what made the last MediaInfo construction fail ("" if none)
    probe_docs,     \* the documents that json.loads returned so far, in order
    _total_file_size, \* _MediaInfo._total_file_size
    _files,         \* _MediaInfo._files: key -> [format_built, classified]
    main_state,     \* main(): "idle" | "running" | "returned" | "exited"
    exit_code,      \* status passed to sys.exit (None if it was not called)
    main_message,   \* the error that main printed ("" if none)
    reads,          \* reads of the finished processor's interface so far
    read_error,     \* error raised by the last read ("" if none)
    format_in,      \* format block handed to _get_format_data
    format_out,     \* [ok, counted, data] of that call
    fpc,            \* "idle" | "ready" | "done"
    video_in,       \* tags of the video stream handed to _extract_video_info
    video_out,      \* [ok, duration_sec, total_frames, fps] of that call
    vpc,            \* "idle" | "ready" | "done"
    dur_in,         \* duration (milliseconds) handed to _convert_duration_to_str
    dur_str,        \* the string it returned
    dur_back,       \* _convert_duration_to_sec of that string
    dpc,            \* "idle" | "ready" | "done"
    lang_in,        \* stream handed to _extract_video/audio/subtitle_info
    lang_out,       \* the language field of the track it returned
    lpc,            \* "idle" | "ready" | "done"
    gets,           \* calls of get() on the finished record so far
    got,            \* result of the last get(): [index, found, kind, track]
    instances,      \* MediaInfo objects that __new__ has created so far
    info_calls,     \* direct constructions MediaInfo(path) by a caller so far
    returned        \* path and object of the last direct construction

fs_vars == <<fs_kind, fs_name, cfg>>
walk_vars == <<search_default, walk_calls, walk_root, walk_status, walk_result,
               walk_before>>
run_vars == <<tasks, runs, task_error, pc, err, target_files, total_files, processing,
              extracted, data, probe_log, progress_log, ffprobe_calls,
              tool_present>>
track_vars == <<raw_info, info, tpc>>
media_vars == <<_data, fail_cause, probe_docs, _total_file_size, _files,
               instances>>
main_vars == <<main_state, exit_code, main_message>>
read_vars == <<reads, read_error, info_calls, returned>>
format_vars == <<format_in, format_out, fpc>>
video_vars == <<video_in, video_out, vpc>>
duration_vars == <<dur_in, dur_str, dur_back, dpc>>
lang_vars == <<lang_in, lang_out, lpc>>
get_vars == <<gets, got>>
unit_vars == <<duration_vars, lang_vars, get_vars>>
pure_vars == <<track_vars, format_vars, video_vars, unit_vars>>
vars == <<fs_vars, walk_vars, run_vars, track_vars, media_vars, main_vars,
          read_vars, format_vars, video_vars, unit_vars>>

(***************************************************************************)
(* Paths.                                                                  *)
(***************************************************************************)
Parent(n) == n \div 2

exists(p) == fs_kind[p] # "none"
is_file(p) == fs_kind[p] = "file"
is_dir(p) == fs_kind[p] = "dir"

\* Path.iterdir(): the entries of a directory, in enumeration order.
iterdir(p) ==
    LET cand == <<2 * p, 2 * p + 1>>
    IN  SelectSeq(cand, LAMBDA c : c \in Nodes /\ fs_kind[c] # "none")

\* Python's `keyword in file.name`: substring containment, case-sensitive.
Contains(keyword, name) ==
    \E i \in 0..(Len(name) - Len(keyword)) :
        SubSeq(name, i + 1, i + Len(keyword)) = keyword

\* str.rfind('.') as a 1-based position, 0 when there is no dot.
RFindDot(name) ==
    LET dots == {i \in 1..Len(name) : name[i] = "."}
    IN  IF dots = {} THEN 0 ELSE CHOOSE i \in dots : \A j \in dots : j <= i

\* Path.suffix: the final component's last extension, with its leading dot.
suffix(name) ==
    LET i == RFindDot(name)
    IN  IF 1 < i /\ i < Len(name) THEN SubSeq(name, i, Len(name)) ELSE <<>>

InSeq(x, s) == \E i \in 1..Len(s) : s[i] = x

AnyKeyword(keywords, name) ==
    \E i \in 1..Len(keywords) : Contains(keywords[i], name)

(***************************************************************************)
(* _MediaProcessor._filter                                                 *)
(***************************************************************************)
\* A filter whose file branch forgets the extension allow-list.
_filter_without_extensions(file) ==
    IF is_dir(file) \/ is_file(file)
    THEN ~ \/ (cfg.includes # <<>> /\ ~AnyKeyword(cfg.includes, fs_name[file]))
           \/ (cfg.excludes # <<>> /\ AnyKeyword(cfg.excludes, fs_name[file]))
    ELSE TRUE

_filter(file) ==
    IF is_dir(file)
    THEN ~ \/ (cfg.includes # <<>> /\ ~AnyKeyword(cfg.includes, fs_name[file]))
           \/ (cfg.excludes # <<>> /\ AnyKeyword(cfg.excludes, fs_name[file]))
    ELSE IF is_file(file)
    THEN ~ \/ (cfg.includes # <<>> /\ ~AnyKeyword(cfg.includes, fs_name[file]))
           \/ (cfg.excludes # <<>> /\ AnyKeyword(cfg.excludes, fs_name[file]))
           \/ (cfg.extensions # <<>>
               /\ ~InSeq(suffix(fs_name[file]), cfg.extensions))
    ELSE TRUE

(***************************************************************************)
(* _MediaProcessor._search_files(path, target_files): the list that the    *)
(* call returns.  The caller has checked that path exists.                 *)
(***************************************************************************)
RECURSIVE _search_files(_, _)
RECURSIVE search_entries(_, _, _)

\* The `for f in path.iterdir()` loop from entry i on.
search_entries(entries, i, target) ==
    IF i > Len(entries) THEN target
    ELSE LET f == entries[i]
         IN  IF ~_filter(f) THEN search_entries(entries, i + 1, target)
             ELSE IF is_dir(f)
             THEN IF cfg.no_subdir
                  THEN search_entries(entries, i + 1, target)
                  ELSE search_entries(entries, i + 1, _search_files(f, target))
             ELSE IF is_file(f)
             THEN search_entries(entries, i + 1, Append(target, f))
             ELSE search_entries(entries, i + 1, target)

_search_files(path, target) ==
    IF is_file(path)
    THEN IF _filter(path) THEN Append(target, path) ELSE target
    ELSE IF is_dir(path)
    THEN search_entries(iterdir(path), 1, target)
    ELSE target

(***************************************************************************)
(* Initial states: a directory tree and the process's configuration.       *)
(***************************************************************************)
IncludeSettings == {<<>>, << <<"k">>, <<"b", ".">> >>}
ExcludeSettings == {<<>>, << <<"b">> >>}
ExtensionSettings == {SUPPORTED_EXTENSIONS, <<Ext_txt, Ext_mkv>>}

Configs ==
    [includes : IncludeSettings, excludes : ExcludeSettings,
     extensions : ExtensionSettings, no_subdir : BOOLEAN]

\* A tree is well formed when an entry exists exactly under a directory and
\* the entries of one directory have different names.  Names that nothing
\* reads (of a missing path, of a root directory) are fixed.
TreeOK(kind, name) ==
    /\ \A n \in Nodes \ {Root} :
          IF kind[Parent(n)] = "dir" THEN kind[n] \in {"file", "dir"}
                                     ELSE kind[n] = "none"
    /\ \A n \in Nodes : kind[n] = "none" => name[n] = Name_ab
    /\ kind[Root] = "dir" => name[Root] = Name_ab
    /\ \A n, m \in Nodes \ {Root} :
          (n # m /\ Parent(n) = Parent(m) /\ kind[n] # "none") => name[n] # name[m]

InitFs ==
    /\ fs_kind \in [Nodes -> Kinds]
    /\ fs_name \in [Nodes -> Names]
    /\ TreeOK(fs_kind, fs_name)
    /\ cfg \in Configs

InitWalk ==
    /\ search_default = <<>>
    /\ walk_calls = 0
    /\ walk_root = 0
    /\ walk_status = "none"
    /\ walk_result = <<>>
    /\ walk_before = <<>>

(***************************************************************************)
(* Probe documents.  A stream is the part of an ffprobe stream object that *)
(* classification reads: codec_type, index and codec_name, each of which   *)
(* may be missing from the JSON object.                                    *)
(***************************************************************************)
\* track.get('index', None) of a stream that reports no index.
None == -1

Absent == "absent"
CodecTypes == {"video", "audio", "subtitle", "attachment", "data", Absent}
Indices == {None, 0, 1}
CodecNames == {"ttf", "h264", Absent}
FontCodecs == {"ttf", "ttc", "woff", "woff2"}

Streams == [codec_type : CodecTypes, index : Indices, codec_name : CodecNames]

RECURSIVE SeqsUpTo(_, _)
SeqsUpTo(S, n) ==
    IF n = 0 THEN {<<>>}
    ELSE LET shorter == SeqsUpTo(S, n - 1)
         IN  shorter \cup {Append(q, x) : q \in {r \in shorter : Len(r) = n - 1}, x \in S}

\* The 'streams' lists of the probe documents explored.
Docs == SeqsUpTo(Streams, MaxStreams)

(***************************************************************************)
(* _MediaInfo: the per-file record and _get_tracks_data.                   *)
(***************************************************************************)
\* __init__, lines 160-166: the empty dicts and the font counter.
EmptyInfo ==
    [tracks |-> <<>>, tracks_by_type |-> <<>>,
     video |-> <<>>, audio |-> <<>>, subtitle |-> <<>>, attach |-> <<>>,
     attach_fonts |-> 0]

\* d[k] = v of a Python dict.
DictSet(d, k, v) == (k :> v) @@ d

\* track.get('codec_type', 'Unknown')
track_type(track) ==
    IF track.codec_type = Absent THEN "Unknown" ELSE track.codec_type

\* The track built by _extract_*_info, reduced to its index and codec.
extract_info(track) ==
    [index |-> track.index,
     codec |-> IF track.codec_name = Absent THEN "Unknown" ELSE track.codec_name]

\* Lines 320-324: the index map and the tracks-by-type listing.
register(rec, tt, index) ==
    LET by == IF tt \in DOMAIN rec.tracks_by_type
              THEN rec.tracks_by_type
              ELSE DictSet(rec.tracks_by_type, tt, <<>>)
    IN  [rec EXCEPT !.tracks = DictSet(rec.tracks, index, tt),
                    !.tracks_by_type = DictSet(by, tt, Append(by[tt], index))]

\* A bucket in which a later stream replaces the one stored under its index.
bucket_put_last_wins(bucket, track_data) ==
    DictSet(bucket, track_data.index, track_data)

\* `if data.index not in bucket: bucket[data.index] = data`
bucket_put(bucket, track_data) ==
    IF track_data.index \in DOMAIN bucket
    THEN bucket
    ELSE DictSet(bucket, track_data.index, track_data)

\* A loop body that lets a stream of no known type fall through to the
\* registration at the end of the iteration.
classify_registering_unknown(rec, track) ==
    LET tt == track_type(track)
        d == extract_info(track)
    IN  IF d.index = None THEN rec
        ELSE IF tt = "video"
        THEN register([rec EXCEPT !.video = bucket_put(rec.video, d)], tt, d.index)
        ELSE IF tt = "audio"
        THEN register([rec EXCEPT !.audio = bucket_put(rec.audio, d)], tt, d.index)
        ELSE IF tt = "subtitle"
        THEN register([rec EXCEPT !.subtitle = bucket_put(rec.subtitle, d)], tt, d.index)
        ELSE IF tt = "attachment"
        THEN register([rec EXCEPT !.attach = bucket_put(rec.attach, d),
                                  !.attach_fonts =
                                      IF track.codec_name \in FontCodecs
                                      THEN @ + 1 ELSE @], tt, d.index)
        ELSE register(rec, tt, d.index)

\* A loop body that stores a track under the index None instead of
\* dropping it.
classify_keeping_indexless(rec, track) ==
    LET tt == track_type(track)
        d == extract_info(track)
    IN  IF tt = "video"
        THEN register([rec EXCEPT !.video = bucket_put(rec.video, d)], tt, d.index)
        ELSE IF tt = "audio"
        THEN register([rec EXCEPT !.audio = bucket_put(rec.audio, d)], tt, d.index)
        ELSE IF tt = "subtitle"
        THEN register([rec EXCEPT !.subtitle = bucket_put(rec.subtitle, d)], tt, d.index)
        ELSE IF tt = "attachment"
        THEN register([rec EXCEPT !.attach = bucket_put(rec.attach, d),
                                  !.attach_fonts =
                                      IF track.codec_name \in FontCodecs
                                      THEN @ + 1 ELSE @], tt, d.index)
        ELSE rec

\* A loop body that counts a font only when the attachment is stored.
classify_fonts_when_stored(rec, track) ==
    LET tt == track_type(track)
        d == extract_info(track)
    IN  IF tt \notin {"video", "audio", "subtitle", "attachment"} THEN rec
        ELSE IF d.index = None THEN rec
        ELSE IF tt = "video"
        THEN register([rec EXCEPT !.video = bucket_put(rec.video, d)], tt, d.index)
        ELSE IF tt = "audio"
        THEN register([rec EXCEPT !.audio = bucket_put(rec.audio, d)], tt, d.index)
        ELSE IF tt = "subtitle"
        THEN register([rec EXCEPT !.subtitle = bucket_put(rec.subtitle, d)], tt, d.index)
        ELSE register([rec EXCEPT !.attach = bucket_put(rec.attach, d),
                                  !.attach_fonts =
                                      IF /\ track.codec_name \in FontCodecs
                                         /\ d.index \notin DOMAIN rec.attach
                                      THEN @ + 1 ELSE @], tt, d.index)

\* One iteration of `for track in _tracks` (lines 258-324).
classify(rec, track) ==
    LET tt == track_type(track)
        d == extract_info(track)
    IN  IF tt = "video"
        THEN IF d.index = None THEN rec
             ELSE register([rec EXCEPT !.video = bucket_put(rec.video, d)],
                           tt, d.index)
        ELSE IF tt = "audio"
        THEN IF d.index = None THEN rec
             ELSE register([rec EXCEPT !.audio = bucket_put(rec.audio, d)],
                           tt, d.index)
        ELSE IF tt = "subtitle"
        THEN IF d.index = None THEN rec
             ELSE register([rec EXCEPT !.subtitle = bucket_put(rec.subtitle, d)],
                           tt, d.index)
        ELSE IF tt = "attachment"
        THEN IF d.index = None THEN rec
             ELSE register([rec EXCEPT !.attach = bucket_put(rec.attach, d),
                                       !.attach_fonts =
                                           IF track.codec_name \in FontCodecs
                                           THEN @ + 1 ELSE @],
                           tt, d.index)
        ELSE IF tt = "Unknown" THEN rec
        ELSE rec

\* _get_tracks_data on a fresh record: the loop over the stream list.
RECURSIVE classify_from(_, _, _)
classify_from(rec, streams, i) ==
    IF i > Len(streams) THEN rec
    ELSE classify_from(classify(rec, streams[i]), streams, i + 1)

tracks_data(streams) == classify_from(EmptyInfo, streams, 1)

\* The properties total_tracks, total_*_tracks and total_fonts.
total_tracks(rec) == Cardinality(DOMAIN rec.tracks)
total_video_tracks(rec) == Cardinality(DOMAIN rec.video)
total_audio_tracks(rec) == Cardinality(DOMAIN rec.audio)
total_subtitle_tracks(rec) == Cardinality(DOMAIN rec.subtitle)
total_attach_tracks(rec) == Cardinality(DOMAIN rec.attach)
total_fonts(rec) == rec.attach_fonts

\* getattr(self, f'_{track}_tracks', {}): the attributes are _video_tracks,
\* _audio_tracks, _subtitle_tracks and _attach_tracks; any other name gives
\* the default, an empty dict.
tracks_attribute(rec, track) ==
    IF track = "video" THEN rec.video
    ELSE IF track = "audio" THEN rec.audio
    ELSE IF track = "subtitle" THEN rec.subtitle
    ELSE IF track = "attach" THEN rec.attach
    ELSE <<>>

\* The result of get() when it returns None.
NotFound(index) ==
    [index |-> index, found |-> FALSE, kind |-> "",
     track |-> [index |-> None, codec |-> "Unknown"]]

\* _MediaInfo.get(index): the type from the index map, then the track from
\* the attribute named after that type.
get(rec, index) ==
    IF index \notin DOMAIN rec.tracks THEN NotFound(index)
    ELSE LET track == rec.tracks[index]
             bucket == tracks_attribute(rec, track)
         IN  IF index \in DOMAIN bucket
             THEN [index |-> index, found |-> TRUE, kind |-> track,
                   track |-> bucket[index]]
             ELSE NotFound(index)

InitTrackIdle ==
    /\ raw_info = <<>>
    /\ info = EmptyInfo
    /\ tpc = "idle"

(***************************************************************************)
(* Numbers in probe documents.  ffprobe reports sizes, bit rates and       *)
(* durations as strings; a string is a sequence of characters.  A duration *)
(* in seconds is kept as a whole number of milliseconds.                   *)
(***************************************************************************)
DigitChars == <<"0", "1", "2", "3", "4", "5", "6", "7", "8", "9">>

IsDigit(c) == \E d \in 1..10 : DigitChars[d] = c
DigitOf(c) == (CHOOSE d \in 1..10 : DigitChars[d] = c) - 1
IsDigits(str) == str # <<>> /\ \A i \in 1..Len(str) : IsDigit(str[i])

RECURSIVE DigitsValue(_)
DigitsValue(str) ==
    IF str = <<>> THEN 0
    ELSE 10 * DigitsValue(SubSeq(str, 1, Len(str) - 1)) + DigitOf(str[Len(str)])

\* The result of a conversion that raised ValueError.
Raised == [ok |-> FALSE, val |-> 0]
Value(v) == [ok |-> TRUE, val |-> v]

\* int(str) of a decimal literal; any other string raises ValueError.
int(str) == IF IsDigits(str) THEN Value(DigitsValue(str)) ELSE Raised

\* The position of the first '.' of a string, 0 when there is none.
FindDot(str) ==
    LET dots == {i \in 1..Len(str) : str[i] = "."}
    IN  IF dots = {} THEN 0 ELSE CHOOSE i \in dots : \A j \in dots : i <= j

\* float(str) of a literal `digits` or `digits.ddd` with at most three
\* decimals, in milliseconds; any other string raises ValueError.
float(str) ==
    LET dot == FindDot(str)
        whole == IF dot = 0 THEN str ELSE SubSeq(str, 1, dot - 1)
        frac == IF dot = 0 THEN <<>> ELSE SubSeq(str, dot + 1, Len(str))
        pad == IF Len(frac) = 1 THEN 100 ELSE IF Len(frac) = 2 THEN 10 ELSE 1
    IN  IF /\ IsDigits(whole)
           /\ dot # 0 => (IsDigits(frac) /\ Len(frac) <= 3)
        THEN Value(1000 * DigitsValue(whole) + pad * DigitsValue(frac))
        ELSE Raised

\* The decimal digits of n, at least `width` of them (format spec 0<width>d).
RECURSIVE FormatDigits(_, _)
FormatDigits(n, width) ==
    IF n < 10 /\ width <= 1 THEN <<DigitChars[n + 1]>>
    ELSE Append(FormatDigits(n \div 10, width - 1), DigitChars[(n % 10) + 1])

\* A formatting whose minutes field is the total number of minutes.
_convert_duration_to_str_total_minutes(duration) ==
    IF duration = 0
    THEN <<"0", "0", ":", "0", "0", ":", "0", "0", ".", "0", "0", "0">>
    ELSE LET h == duration \div 3600000
             m == duration \div 60000
             sec == duration % 60000
         IN  FormatDigits(h, 2) \o <<":">> \o FormatDigits(m, 2) \o <<":">>
             \o FormatDigits(sec \div 1000, 2) \o <<".">>
             \o FormatDigits(sec % 1000, 3)

\* _convert_duration_to_str: HH:MM:SS.mmm of a duration in milliseconds.
_convert_duration_to_str(duration) ==
    IF duration = 0
    THEN <<"0", "0", ":", "0", "0", ":", "0", "0", ".", "0", "0", "0">>
    ELSE LET h == duration \div 3600000
             m == (duration % 3600000) \div 60000
             sec == duration % 60000
         IN  FormatDigits(h, 2) \o <<":">> \o FormatDigits(m, 2) \o <<":">>
             \o FormatDigits(sec \div 1000, 2) \o <<".">>
             \o FormatDigits(sec % 1000, 3)

\* str.split(sep): the pieces of a string between the separators.
RECURSIVE split(_, _)
split(str, sep) ==
    LET seps == {i \in 1..Len(str) : str[i] = sep}
    IN  IF seps = {} THEN <<str>>
        ELSE LET first == CHOOSE i \in seps : \A j \in seps : i <= j
             IN  <<SubSeq(str, 1, first - 1)>>
                 \o split(SubSeq(str, first + 1, Len(str)), sep)

\* _convert_duration_to_sec: HH:MM:SS.mmm to milliseconds.  The unpacking
\* `h, m, s = ...` raises ValueError unless there are three pieces, and so
\* does float() on a piece that is not a number.
_convert_duration_to_sec(duration_str) ==
    IF duration_str = <<>> THEN Value(0)
    ELSE LET parts == split(duration_str, ":")
         IN  IF Len(parts) # 3 THEN Raised
             ELSE LET h == float(parts[1])
                      m == float(parts[2])
                      sec == float(parts[3])
                  IN  IF h.ok /\ m.ok /\ sec.ok
                      THEN Value(h.val * 3600 + m.val * 60 + sec.val)
                      ELSE Raised

\* n / d to k further decimal digits, truncated, with the remainder.
RECURSIVE long_division(_, _, _, _)
long_division(quot, rem, d, k) ==
    IF k = 0 THEN [quot |-> quot, rem |-> rem]
    ELSE long_division(10 * quot + (10 * rem) \div d, (10 * rem) % d, d, k - 1)

\* total_frames / duration_sec in units of 10^-5, truncated, for a duration
\* in milliseconds.
frames_per_second(total_frames, duration) ==
    long_division((1000 * total_frames) \div duration,
                  (1000 * total_frames) % duration, duration, 5)

\* A frame rate cut off after five decimals.
round_5_truncating(total_frames, duration) ==
    frames_per_second(total_frames, duration).quot

\* round(x, 5): to the nearest multiple of 10^-5, a tie to the even one.
round_5(total_frames, duration) ==
    LET q == frames_per_second(total_frames, duration)
    IN  IF 2 * q.rem < duration THEN q.quot
        ELSE IF 2 * q.rem > duration THEN q.quot + 1
        ELSE IF q.quot % 2 = 0 THEN q.quot ELSE q.quot + 1

(***************************************************************************)
(* The frame rate of _MediaInfo._extract_video_info (lines 338-346), from  *)
(* the tags of a video stream.  A tag is <<>> when it is missing and <<v>> *)
(* when it is present with value v.                                        *)
(***************************************************************************)
Missing == <<>>
Present(v) == <<v>>

\* dict.get(key, default)
Get(field, default) == IF field = Missing THEN default ELSE field[1]

DurationTags ==
    {Missing, Present(<<>>),
     Present(<<"0", "0", ":", "0", "0", ":", "0", "0", ".", "0", "0", "0">>),
     Present(<<"0", "0", ":", "0", "0", ":", "0", "2", ".", "0", "0", "0">>),
     Present(<<"0", "0", ":", "0", "0", ":", "0", "3", ".", "0", "0", "0">>),
     Present(<<"0", "0", ":", "0", "1", ":", "0", "4", ".", "0", "0", "0">>),
     Present(<<"0", "0", ":", "0", "0", ":", "0", "1", ".", "5", "0", "0">>),
     Present(<<"1", "2">>),
     Present(<<"0", "0", ":", "0", "0", ":", "x">>)}

FrameTags ==
    {Missing, Present(<<"0">>), Present(<<"1">>), Present(<<"3">>),
     Present(<<"5", "0">>), Present(<<"N", "/", "A">>)}

VideoTags == [DURATION : DurationTags, NUMBER_OF_FRAMES : FrameTags]

\* _tags.get('DURATION', '') and int(_tags.get('NUMBER_OF_FRAMES', 0))
duration_tag(tags) == Get(tags.DURATION, <<>>)
total_frames(tags) ==
    IF tags.NUMBER_OF_FRAMES = Missing THEN Value(0)
    ELSE int(tags.NUMBER_OF_FRAMES[1])

\* [ok, duration_sec, total_frames, fps]; fps in units of 10^-5.  ok is
\* FALSE when a conversion raised ValueError.
extract_video_fps(tags) ==
    LET dur == _convert_duration_to_sec(duration_tag(tags))
        frames == total_frames(tags)
    IN  IF ~dur.ok \/ ~frames.ok
        THEN [ok |-> FALSE, duration_sec |-> 0, total_frames |-> 0, fps |-> 0]
        ELSE [ok |-> TRUE, duration_sec |-> dur.val, total_frames |-> frames.val,
              fps |-> IF dur.val # 0 /\ frames.val # 0
                      THEN round_5(frames.val, dur.val)
                      ELSE 0]

(***************************************************************************)
(* _MediaInfo._get_format_data.  A key of the format block is <<>> when it *)
(* is missing and <<v>> when it is present with value v; a missing         *)
(* 'format' or 'tags' object is the block with all of its keys missing.    *)
(***************************************************************************)
SizeValues ==
    {Missing, Present(<<"0">>), Present(<<"7">>), Present(<<"1", "2">>),
     Present(<<"N", "/", "A">>)}
DurationValues == {Missing, Present(<<"1", ".", "5">>), Present(<<"6", "2">>)}
BitRateValues == {Missing, Present(<<"9", "0">>), Present(<<"N", "/", "A">>)}
ScoreValues == {Missing, Present(100)}
FormatNameValues == {Missing, Present("matroska,webm")}
FormatLongNameValues == {Missing, Present("Matroska / WebM")}
EncoderValues == {Missing, Present("libebml")}
EncodingInfoValues == {Missing, Present("x264")}

FormatBlocks ==
    [probe_score : ScoreValues, size : SizeValues, duration : DurationValues,
     bit_rate : BitRateValues, format_name : FormatNameValues,
     format_long_name : FormatLongNameValues, ENCODER : EncoderValues,
     ENCODING_INFO : EncodingInfoValues]

\* int(_format.get('size', 0)) and float(_format.get('duration', 0)): the
\* default 0 is a number and converts to itself.
int_or_zero(field) == IF field = Missing THEN Value(0) ELSE int(field[1])
float_or_zero(field) == IF field = Missing THEN Value(0) ELSE float(field[1])

\* The long name defaulting to "Unknown" like the other strings.
format_long_name_default_unknown(fmt) == Get(fmt.format_long_name, "Unknown")

\* _format.get('format_long_name', _format_name)
format_long_name(fmt) ==
    Get(fmt.format_long_name, Get(fmt.format_name, "Unknown"))

\* The FormatData that _get_format_data returns (lines 242-252).
format_data(fmt) ==
    [score |-> Get(fmt.probe_score, 0),
     size |-> int_or_zero(fmt.size).val,
     duration |-> float_or_zero(fmt.duration).val,
     duration_str |-> _convert_duration_to_str(float_or_zero(fmt.duration).val),
     format |-> Get(fmt.format_name, "Unknown"),
     format_long_name |-> format_long_name(fmt),
     bitrate |-> int_or_zero(fmt.bit_rate).val,
     encoder |-> Get(fmt.ENCODER, "Unknown"),
     encoding_info |-> Get(fmt.ENCODING_INFO, "Unknown")]

\* Line 240 is reached: int(size) and float(duration) did not raise.
format_counted(fmt) == int_or_zero(fmt.size).ok /\ float_or_zero(fmt.duration).ok

\* _get_format_data returns: no conversion of lines 235-252 raised.
format_built(fmt) == format_counted(fmt) /\ int_or_zero(fmt.bit_rate).ok

\* A counter that is overwritten with the size of the last file.
increase_cached_size_overwriting(total, size) == size

\* _increase_cached_size: cls._total_file_size += size
increase_cached_size(total, size) == total + size

(***************************************************************************)
(* A run: main() calls process(config), which constructs                   *)
(* MediaProcessor(config), that is _Processor.__new__, then                *)
(* _MediaProcessor.__init__ (discovery, count, catalog assembly).          *)
(***************************************************************************)
NoFormat ==
    [probe_score |-> Missing, size |-> Missing, duration |-> Missing,
     bit_rate |-> Missing, format_name |-> Missing,
     format_long_name |-> Missing, ENCODER |-> Missing,
     ENCODING_INFO |-> Missing]

NoTags == [DURATION |-> Missing, NUMBER_OF_FRAMES |-> Missing]

VideoAndAudio ==
    << [codec_type |-> "video", index |-> 0, codec_name |-> "h264"],
       [codec_type |-> "audio", index |-> 1, codec_name |-> Absent] >>

\* The probe documents that the tool reports during a run: the format
\* block, the streams, and the tags of the video streams.  The last three
\* hold a value that a conversion rejects: the size, the bit rate, and the
\* DURATION tag of the video stream.
RunDocs ==
    { [format |-> NoFormat, streams |-> <<>>, video_tags |-> NoTags],
      [format |-> [NoFormat EXCEPT !.size = Present(<<"7">>),
                                   !.duration = Present(<<"1", ".", "5">>),
                                   !.format_name = Present("matroska,webm")],
       streams |-> VideoAndAudio,
       video_tags |-> [DURATION |-> Present(<<"0", "0", ":", "0", "0", ":",
                                              "0", "2", ".", "0", "0", "0">>),
                       NUMBER_OF_FRAMES |-> Present(<<"5", "0">>)]],
      [format |-> [NoFormat EXCEPT !.size = Present(<<"1", "2">>)],
       streams |-> << [codec_type |-> "attachment", index |-> 0,
                       codec_name |-> "ttf"] >>,
       video_tags |-> NoTags],
      [format |-> [NoFormat EXCEPT !.size = Present(<<"N", "/", "A">>)],
       streams |-> <<>>, video_tags |-> NoTags],
      [format |-> [NoFormat EXCEPT !.size = Present(<<"7">>),
                                   !.bit_rate = Present(<<"N", "/", "A">>)],
       streams |-> <<>>, video_tags |-> NoTags],
      [format |-> [NoFormat EXCEPT !.size = Present(<<"1", "2">>)],
       streams |-> VideoAndAudio,
       video_tags |-> [DURATION |-> Present(<<"1", "2">>),
                       NUMBER_OF_FRAMES |-> Missing]] }

\* _extract_video_info runs for every stream whose codec_type is 'video'.
has_video(doc) ==
    \E i \in 1..Len(doc.streams) : doc.streams[i].codec_type = "video"

\* _get_tracks_data returns: no extraction raised.
tracks_built(doc) == has_video(doc) => extract_video_fps(doc.video_tags).ok

\* How the tool fails once it has been invoked: a non-zero exit status,
\* empty output, or output that is not JSON.
ProbeFailures == {"nonzero_exit", "empty_stdout", "bad_json"}

\* The error that leaves MediaInfo(file) for each cause: the missing tool
\* (lines 195-198), CalledProcessError (218-219), empty output (225-226),
\* json.loads (228), and a value that int() or float() rejects.
ProbeError(outcome) ==
    IF outcome = "tool_missing" THEN "RuntimeError"
    ELSE IF outcome = "bad_json" THEN "JSONDecodeError"
    ELSE IF outcome = "bad_value" THEN "ValueError"
    ELSE "QueryError"

\* The errors that leave MediaInfo(file); RuntimeError is the missing tool.
ProbeErrors == {"QueryError", "JSONDecodeError", "ValueError", "RuntimeError"}

\* The key of Path() in _MediaInfo._files: '.', which no discovered file has.
CurrentDir == 0

\* The instance that __new__ has registered and __init__ has not filled.
NewRecord(id) == [id |-> id, format_built |-> FALSE, classified |-> FALSE]

InitRun ==
    /\ tasks = {}
    /\ runs = 0
    /\ task_error = ""
    /\ pc = "idle"
    /\ err = ""
    /\ target_files = <<>>
    /\ total_files = 0
    /\ processing = 0
    /\ extracted = 0
    /\ data = <<>>
    /\ probe_log = <<>>
    /\ progress_log = <<>>
    /\ ffprobe_calls = 0
    /\ tool_present \in BOOLEAN

InitMedia ==
    /\ _data = [bound |-> FALSE, catalog |-> <<>>]
    /\ fail_cause = ""
    /\ probe_docs = <<>>
    /\ _total_file_size = 0
    /\ _files = <<>>
    /\ instances = 0

InitMain ==
    /\ main_state = "idle"
    /\ exit_code = None
    /\ main_message = ""
    /\ reads = 0
    /\ read_error = ""
    /\ info_calls = 0
    /\ returned = [path |-> None, id |-> 0]

InitFormatIdle ==
    /\ format_in = NoFormat
    /\ format_out = [ok |-> FALSE, counted |-> FALSE, data |-> format_data(NoFormat)]
    /\ fpc = "idle"

InitVideoIdle ==
    /\ video_in = NoTags
    /\ video_out = extract_video_fps(NoTags)
    /\ vpc = "idle"

InitDurationIdle ==
    /\ dur_in = 0
    /\ dur_str = <<>>
    /\ dur_back = Value(0)
    /\ dpc = "idle"

InitLangIdle ==
    /\ lang_in = [codec_type |-> "video", language |-> Missing,
                  tags_language |-> Missing]
    /\ lang_out = ""
    /\ lpc = "idle"

InitGetIdle ==
    /\ gets = 0
    /\ got = [index |-> None, found |-> FALSE, kind |-> "",
              track |-> [index |-> None, codec |-> "Unknown"]]

\* main() up to the construction of the processor: _Processor.__new__ and
\* _Processor.__init__ register the task under str(config.path), or the
\* construction is rejected.
Construct ==
    /\ runs < MaxRuns
    /\ main_state # "running"
    /\ pc \in {"idle", "done", "failed"}
    /\ runs' = runs + 1
    /\ main_state' = "running"
    /\ exit_code' = None
    /\ main_message' = ""
    /\ IF Root \in tasks
       THEN /\ task_error' = "TaskExistsError"
            /\ UNCHANGED <<tasks, pc, err>>
       ELSE /\ tasks' = tasks \cup {Root}
            /\ task_error' = ""
            /\ pc' = "discovering"
            /\ err' = ""
    /\ UNCHANGED <<target_files, total_files, processing, extracted, data,
                   probe_log, progress_log, ffprobe_calls, tool_present>>
    /\ UNCHANGED <<fs_vars, walk_vars, pure_vars, media_vars, read_vars>>

\* A count of the files that the '.mkv' gate lets through.
RECURSIVE _count_files_gate_passing(_)
_count_files_gate_passing(files) ==
    IF files = <<>> THEN 0
    ELSE _count_files_gate_passing(Tail(files))
         + (IF suffix(fs_name[Head(files)]) = Ext_mkv THEN 1 ELSE 0)

\* _count_files: `count = len(files)`
RECURSIVE _count_files(_)
_count_files(files) ==
    IF files = <<>> THEN 0 ELSE _count_files(Tail(files)) + 1

\* A discovery that reports a missing root as an empty tree.
Discover_without_exists_check ==
    /\ pc = "discovering"
    /\ target_files' = _search_files(Root, search_default)
    /\ search_default' = target_files'
    /\ total_files' = _count_files(target_files')
    /\ pc' = "probing"
    /\ UNCHANGED <<tasks, runs, task_error, err, processing, extracted, data, probe_log,
                   progress_log, ffprobe_calls, tool_present>>
    /\ UNCHANGED <<fs_vars, walk_calls, walk_root, walk_status, walk_result,
                   walk_before, pure_vars, media_vars, main_vars, read_vars>>

\* __init__, lines 44-45 and 135-137: _search_files(self.path) with the
\* default list, _count_files, and the empty catalog.
Discover ==
    /\ pc = "discovering"
    /\ IF ~exists(Root)
       THEN /\ pc' = "failed"
            /\ err' = "FileNotFoundError"
            /\ UNCHANGED <<target_files, total_files, search_default>>
       ELSE /\ target_files' = _search_files(Root, search_default)
            /\ search_default' = target_files'
            /\ total_files' = _count_files(target_files')
            /\ pc' = "probing"
            /\ err' = ""
    /\ UNCHANGED <<tasks, runs, task_error, processing, extracted, data, probe_log,
                   progress_log, ffprobe_calls, tool_present>>
    /\ UNCHANGED <<fs_vars, walk_calls, walk_root, walk_status, walk_result,
                   walk_before, pure_vars, media_vars, main_vars, read_vars>>

\* A gate that reuses the walker's extension allow-list.
is_container_by_allow_list(file) == InSeq(suffix(fs_name[file]), cfg.extensions)

\* `match file.suffix: case '.mkv'`
is_container(file) == suffix(fs_name[file]) = Ext_mkv

\* One iteration of the loop of _get_media_info for a file that the gate
\* skips: the progress line is printed and nothing else happens.
SkipFile ==
    /\ pc = "probing"
    /\ processing < Len(target_files)
    /\ ~is_container(target_files[processing + 1])
    /\ processing' = processing + 1
    /\ progress_log' = Append(progress_log, <<processing + 1, total_files>>)
    /\ UNCHANGED <<tasks, runs, task_error, pc, err, target_files, total_files, extracted,
                   data, probe_log, ffprobe_calls, tool_present>>
    /\ UNCHANGED <<fs_vars, walk_vars, pure_vars, media_vars, main_vars, read_vars>>

\* A probe that invokes the tool without looking it up.
_get_ffprobe_unchecked == TRUE

\* _get_ffprobe: shutil.which('ffprobe')
_get_ffprobe == tool_present

\* A failure after which the loop goes on with the next file.
probe_failed_skipping(cause) ==
    /\ pc' = "probing"
    /\ fail_cause' = cause
    /\ UNCHANGED err

\* An exception leaves MediaInfo(file): nothing in _get_media_info or
\* __init__ catches it, so the construction of the processor ends with it.
probe_failed(cause) ==
    /\ pc' = "failed"
    /\ err' = ProbeError(cause)
    /\ fail_cause' = cause

\* The iteration for a gate-passing file up to the invocation of the tool:
\* progress line, extracted += 1, MediaInfo(file) (__new__ registers the
\* instance), shutil.which, subprocess.run.
ProbeStart ==
    /\ pc = "probing"
    /\ processing < Len(target_files)
    /\ is_container(target_files[processing + 1])
    /\ processing' = processing + 1
    /\ progress_log' = Append(progress_log, <<processing + 1, total_files>>)
    /\ extracted' = extracted + 1
    /\ probe_log' = Append(probe_log, target_files[processing + 1])
    /\ instances' = instances + 1
    /\ _files' = DictSet(_files, target_files[processing + 1],
                         NewRecord(instances + 1))
    /\ IF _get_ffprobe
       THEN /\ ffprobe_calls' = ffprobe_calls + 1
            /\ pc' = "probe_running"
            /\ UNCHANGED <<err, fail_cause>>
       ELSE /\ probe_failed("tool_missing")
            /\ UNCHANGED ffprobe_calls
    /\ UNCHANGED <<tasks, runs, task_error, target_files, total_files, data, tool_present>>
    /\ UNCHANGED <<_data, probe_docs, _total_file_size>>
    /\ UNCHANGED <<fs_vars, walk_vars, pure_vars, main_vars, read_vars>>

\* A catalog keyed by the position among all discovered files.
catalog_key_by_position == processing

\* The key under which the record of the current file is stored.
catalog_key == extracted

\* The tool exits.  Either _get_raw_data raises, or the document is parsed:
\* then the format summary is built (the byte counter is raised on the
\* way), the streams are classified and the record is stored in the
\* catalog, unless a conversion raises ValueError.
ProbeFinish ==
    /\ pc = "probe_running"
    /\ \/ \E doc \in RunDocs :
            LET file == target_files[processing]
                fmt == doc.format
            IN  /\ probe_docs' = Append(probe_docs, doc)
                /\ _total_file_size' =
                       IF format_counted(fmt)
                       THEN increase_cached_size(_total_file_size,
                                                 int_or_zero(fmt.size).val)
                       ELSE _total_file_size
                /\ _files' = DictSet(_files, file,
                                     [id |-> _files[file].id,
                                      format_built |-> format_built(fmt),
                                      classified |-> format_built(fmt)
                                                     /\ tracks_built(doc)])
                /\ IF format_built(fmt) /\ tracks_built(doc)
                   THEN /\ data' = DictSet(data, catalog_key,
                                           [path |-> file,
                                            format |-> format_data(fmt),
                                            info |-> tracks_data(doc.streams)])
                        /\ pc' = "probing"
                        /\ UNCHANGED <<err, fail_cause>>
                   ELSE /\ probe_failed("bad_value")
                        /\ UNCHANGED data
       \/ \E outcome \in ProbeFailures :
            /\ probe_failed(outcome)
            /\ UNCHANGED <<data, probe_docs, _total_file_size, _files>>
    /\ UNCHANGED <<tasks, runs, task_error, target_files, total_files, processing, extracted,
                   probe_log, progress_log, ffprobe_calls, tool_present>>
    /\ UNCHANGED <<_data, instances>>
    /\ UNCHANGED <<fs_vars, walk_vars, pure_vars, main_vars, read_vars>>

\* The loop is exhausted: _get_media_info returns and _data is bound.
Finish ==
    /\ pc = "probing"
    /\ processing = Len(target_files)
    /\ pc' = "done"
    /\ _data' = [bound |-> TRUE, catalog |-> data]
    /\ UNCHANGED <<tasks, runs, task_error, err, target_files, total_files, processing,
                   extracted, data, probe_log, progress_log, ffprobe_calls,
                   tool_present>>
    /\ UNCHANGED <<fail_cause, probe_docs, _total_file_size, _files, instances>>
    /\ UNCHANGED <<fs_vars, walk_vars, pure_vars, main_vars, read_vars>>

\* The error that process(config) raised in this call of main, "" if none.
raised ==
    IF task_error # "" THEN task_error
    ELSE IF pc = "failed" THEN err
    ELSE ""

\* A handler that reports the error and lets main return.
MainEnd_returning ==
    /\ main_state = "running"
    /\ task_error # "" \/ pc \in {"done", "failed"}
    /\ main_message' = raised
    /\ main_state' = "returned"
    /\ UNCHANGED exit_code
    /\ UNCHANGED <<fs_vars, walk_vars, run_vars, pure_vars, media_vars, read_vars>>

\* main(), lines 63-69: process(config) returned and main returns args, or
\* `except Exception` prints the error and calls sys.exit(1).
MainEnd ==
    /\ main_state = "running"
    /\ task_error # "" \/ pc \in {"done", "failed"}
    /\ main_message' = raised
    /\ IF raised # ""
       THEN /\ main_state' = "exited"
            /\ exit_code' = 1
       ELSE /\ main_state' = "returned"
            /\ UNCHANGED exit_code
    /\ UNCHANGED <<fs_vars, walk_vars, run_vars, pure_vars, media_vars, read_vars>>

Init ==
    /\ InitFs /\ InitWalk /\ InitRun /\ InitTrackIdle
    /\ InitMedia /\ InitMain /\ InitFormatIdle /\ InitVideoIdle
    /\ InitDurationIdle /\ InitLangIdle /\ InitGetIdle

Next ==
    \/ Construct \/ Discover \/ SkipFile \/ ProbeStart \/ ProbeFinish
    \/ Finish \/ MainEnd

Spec == Init /\ [][Next]_vars

(***************************************************************************)
(* Direct calls of the walker on paths of the tree, in one process.        *)
(***************************************************************************)
\* _search_files(path) with target_files left to its default.
search_call(path) ==
    /\ walk_calls < MaxCalls
    /\ walk_calls' = walk_calls + 1
    /\ walk_root' = path
    /\ walk_before' = search_default
    /\ IF ~exists(path)
       THEN /\ walk_status' = "raised"
            /\ walk_result' = <<>>
            /\ UNCHANGED search_default
       ELSE /\ walk_status' = "returned"
            /\ walk_result' = _search_files(path, search_default)
            /\ search_default' = walk_result'
    /\ UNCHANGED <<fs_vars, run_vars, media_vars, main_vars, read_vars, pure_vars>>

InitWalkSpec ==
    /\ InitFs /\ InitWalk /\ InitRun /\ tool_present /\ InitTrackIdle
    /\ InitMedia /\ InitMain /\ InitFormatIdle /\ InitVideoIdle
    /\ InitDurationIdle /\ InitLangIdle /\ InitGetIdle

NextWalk == \E path \in Nodes : search_call(path)

SpecWalk == InitWalkSpec /\ [][NextWalk]_vars

(***************************************************************************)
(* Classification of one probe document.                                   *)
(***************************************************************************)
\* _get_tracks_data() as __init__ calls it, on the fresh record.
get_tracks_data ==
    /\ tpc = "ready"
    /\ info' = tracks_data(raw_info)
    /\ tpc' = "done"
    /\ UNCHANGED <<raw_info, fs_vars, walk_vars, run_vars, media_vars, main_vars,
                   read_vars, format_vars, video_vars, unit_vars>>

InitTracksSpec ==
    /\ fs_kind = [n \in Nodes |-> "none"]
    /\ fs_name = [n \in Nodes |-> Name_ab]
    /\ cfg = [includes |-> <<>>, excludes |-> <<>>,
              extensions |-> SUPPORTED_EXTENSIONS, no_subdir |-> FALSE]
    /\ InitWalk
    /\ InitRun
    /\ tool_present
    /\ raw_info \in Docs
    /\ info = EmptyInfo
    /\ tpc = "ready"
    /\ InitMedia /\ InitMain /\ InitFormatIdle /\ InitVideoIdle
    /\ InitDurationIdle /\ InitLangIdle /\ InitGetIdle

NextTracks == get_tracks_data

SpecTracks == InitTracksSpec /\ [][NextTracks]_vars

(***************************************************************************)
(* Lookups in the finished record of one probe document.                   *)
(***************************************************************************)
\* The indices looked up: the ones a stream can report, and one more.
GetIndices == (Indices \ {None}) \cup {2}

\* media_info.get(index) by a caller.
get_track(index) ==
    /\ tpc = "done"
    /\ gets < MaxGets
    /\ gets' = gets + 1
    /\ got' = get(info, index)
    /\ UNCHANGED <<track_vars, duration_vars, lang_vars, fs_vars, walk_vars,
                   run_vars, format_vars, video_vars, media_vars, main_vars,
                   read_vars>>

NextGet ==
    \/ get_tracks_data
    \/ \E index \in GetIndices : get_track(index)

SpecGet == InitTracksSpec /\ [][NextGet]_vars

(***************************************************************************)
(* Reads of a finished processor's public interface by its caller.         *)
(***************************************************************************)
\* The property total_files: `return self._total_files`.
ReadTotalFiles ==
    /\ pc = "done"
    /\ reads < MaxReads
    /\ reads' = reads + 1
    /\ read_error' = ""
    /\ UNCHANGED <<info_calls, returned>>
    /\ UNCHANGED <<fs_vars, walk_vars, run_vars, pure_vars, media_vars, main_vars>>

\* processor.data[key].  The catalog is the defaultdict of line 135: a key
\* that is absent runs its factory MediaInfo(Path(), self.debug), which
\* registers an instance under '.', looks the tool up and invokes it on the
\* current directory; the tool exits non-zero on a directory, so the
\* QueryError leaves the lookup and no key is inserted.
ReadCatalog(key) ==
    /\ pc = "done"
    /\ reads < MaxReads
    /\ reads' = reads + 1
    /\ IF key \in DOMAIN _data.catalog
       THEN /\ read_error' = ""
            /\ UNCHANGED <<_files, instances, ffprobe_calls>>
       ELSE /\ instances' = instances + 1
            /\ _files' = DictSet(_files, CurrentDir, NewRecord(instances + 1))
            /\ IF _get_ffprobe
               THEN /\ ffprobe_calls' = ffprobe_calls + 1
                    /\ read_error' = ProbeError("nonzero_exit")
               ELSE /\ read_error' = ProbeError("tool_missing")
                    /\ UNCHANGED ffprobe_calls
    /\ UNCHANGED <<tasks, runs, task_error, pc, err, target_files, total_files,
                   processing, extracted, data, probe_log, progress_log,
                   tool_present>>
    /\ UNCHANGED <<_data, fail_cause, probe_docs, _total_file_size>>
    /\ UNCHANGED <<info_calls, returned>>
    /\ UNCHANGED <<fs_vars, walk_vars, pure_vars, main_vars>>

NextRead ==
    \/ Next
    \/ ReadTotalFiles
    \/ \E key \in 0..(extracted + 1) : ReadCatalog(key)

SpecRead == Init /\ [][NextRead]_vars

(***************************************************************************)
(* The format summary of one probe document.                               *)
(***************************************************************************)
\* _get_format_data() as __init__ calls it.
get_format_data ==
    /\ fpc = "ready"
    /\ format_out' = [ok |-> format_built(format_in),
                      counted |-> format_counted(format_in),
                      data |-> format_data(format_in)]
    /\ _total_file_size' =
           IF format_counted(format_in)
           THEN increase_cached_size(_total_file_size,
                                     int_or_zero(format_in.size).val)
           ELSE _total_file_size
    /\ fpc' = "done"
    /\ UNCHANGED <<format_in, fs_vars, walk_vars, run_vars, track_vars, video_vars,
                   unit_vars,
                   main_vars, read_vars>>
    /\ UNCHANGED <<_data, fail_cause, probe_docs, _files, instances>>

InitPure ==
    /\ fs_kind = [n \in Nodes |-> "none"]
    /\ fs_name = [n \in Nodes |-> Name_ab]
    /\ cfg = [includes |-> <<>>, excludes |-> <<>>,
              extensions |-> SUPPORTED_EXTENSIONS, no_subdir |-> FALSE]
    /\ InitWalk
    /\ InitRun
    /\ tool_present
    /\ InitMedia
    /\ InitMain

InitFormatSpec ==
    /\ InitPure
    /\ InitTrackIdle
    /\ InitVideoIdle
    /\ InitDurationIdle /\ InitLangIdle /\ InitGetIdle
    /\ format_in \in FormatBlocks
    /\ format_out = [ok |-> FALSE, counted |-> FALSE, data |-> format_data(NoFormat)]
    /\ fpc = "ready"

NextFormat == get_format_data

SpecFormat == InitFormatSpec /\ [][NextFormat]_vars

(***************************************************************************)
(* The frame rate of one video stream.                                     *)
(***************************************************************************)
\* _extract_video_info(track), lines 338-346.
extract_video_info ==
    /\ vpc = "ready"
    /\ video_out' = extract_video_fps(video_in)
    /\ vpc' = "done"
    /\ UNCHANGED <<video_in, fs_vars, walk_vars, run_vars, track_vars, format_vars,
                   unit_vars,
                   media_vars, main_vars, read_vars>>

InitVideoSpec ==
    /\ InitPure
    /\ InitTrackIdle
    /\ InitFormatIdle
    /\ InitDurationIdle /\ InitLangIdle /\ InitGetIdle
    /\ video_in \in VideoTags
    /\ video_out = extract_video_fps(NoTags)
    /\ vpc = "ready"

NextVideo == extract_video_info

SpecVideo == InitVideoSpec /\ [][NextVideo]_vars

(***************************************************************************)
(* Formatting a duration and parsing it back.                              *)
(***************************************************************************)
\* The durations tried, in milliseconds: every one up to MaxMillis, and the
\* ones around a full second, minute, hour, day and hundred hours.
Durations ==
    (0..MaxMillis) \cup {999, 1000, 1001, 59999, 60000, 3599999, 3600000,
                         3723456, 86399999, 86400000, 359999999, 360000000}

\* _convert_duration_to_sec(_convert_duration_to_str(d))
convert_duration ==
    /\ dpc = "ready"
    /\ dur_str' = _convert_duration_to_str(dur_in)
    /\ dur_back' = _convert_duration_to_sec(dur_str')
    /\ dpc' = "done"
    /\ UNCHANGED <<dur_in, lang_vars, get_vars, fs_vars, walk_vars, run_vars,
                   track_vars, format_vars, video_vars, media_vars, main_vars,
                   read_vars>>

InitDurationSpec ==
    /\ InitPure
    /\ InitTrackIdle /\ InitFormatIdle /\ InitVideoIdle
    /\ InitLangIdle /\ InitGetIdle
    /\ dur_in \in Durations
    /\ dur_str = <<>>
    /\ dur_back = Value(0)
    /\ dpc = "ready"

NextDuration == convert_duration

SpecDuration == InitDurationSpec /\ [][NextDuration]_vars

(***************************************************************************)
(* The language of a track.                                                *)
(***************************************************************************)
\* base.LANGUAGE_CODES, loaded from info/ISO_639-2.json: the ISO code to
\* name table.  Section 7 names one of its entries, "eng" -> "English".
LANGUAGE_CODES == [code \in {"eng"} |-> "English"]

\* LANGUAGE_CODES.get(code, 'Unknown')
language_lookup(code) ==
    IF code \in DOMAIN LANGUAGE_CODES THEN LANGUAGE_CODES[code] ELSE "Unknown"

\* _extract_video_info: the code is read from the stream's tags.
video_language(track) == language_lookup(Get(track.tags_language, ""))

\* _extract_audio_info: the code is read from the stream itself.
audio_language(track) == language_lookup(Get(track.language, ""))

\* _extract_subtitle_info: the code is read from the stream itself.
subtitle_language(track) == language_lookup(Get(track.language, ""))

track_language(track) ==
    IF track.codec_type = "video" THEN video_language(track)
    ELSE IF track.codec_type = "audio" THEN audio_language(track)
    ELSE subtitle_language(track)

\* The language codes of the streams: absent, empty, in the table, and not
\* in it.
LanguageValues ==
    {Missing, Present(""), Present("eng"), Present("zzz"), Present("e")}

LanguageStreams ==
    [codec_type : {"video", "audio", "subtitle"},
     language : LanguageValues, tags_language : LanguageValues]

\* One of _extract_video_info, _extract_audio_info, _extract_subtitle_info
\* on a stream, as the classification dispatches on codec_type.
extract_language ==
    /\ lpc = "ready"
    /\ lang_out' = track_language(lang_in)
    /\ lpc' = "done"
    /\ UNCHANGED <<lang_in, duration_vars, get_vars, fs_vars, walk_vars,
                   run_vars, track_vars, format_vars, video_vars, media_vars,
                   main_vars, read_vars>>

InitLangSpec ==
    /\ InitPure
    /\ InitTrackIdle /\ InitFormatIdle /\ InitVideoIdle
    /\ InitDurationIdle /\ InitGetIdle
    /\ lang_in \in LanguageStreams
    /\ lang_out = ""
    /\ lpc = "ready"

NextLang == extract_language

SpecLang == InitLangSpec /\ [][NextLang]_vars

(***************************************************************************)
(* Direct constructions of MediaInfo by a caller.                          *)
(***************************************************************************)
\* The paths a caller constructs MediaInfo for.
InfoPaths == {1, 2}

\* `file_path not in cls._files` in __new__: the keys of _files are
\* str(file_path), the operand is the Path itself, and a Path equals no
\* str, so the test finds no key whatever the registry holds.
not_in_files(file_path, files) == TRUE

\* The exception leaves the constructor: the caller gets no object.
info_failed(file_path, cause) ==
    /\ err' = ProbeError(cause)
    /\ fail_cause' = cause
    /\ returned' = [path |-> file_path, id |-> 0]

\* MediaInfo(file_path): __new__ and then __init__.  __new__ registers a
\* new object under str(file_path) when the test finds no key, and returns
\* the object registered under that key; __init__ does its work unless the
\* object has the attribute `created`: the tool is looked up and run, the
\* format summary is built (the byte counter is raised on the way) and the
\* streams are classified.
MediaInfo(file_path) ==
    LET fresh == not_in_files(file_path, _files)
        self == IF fresh THEN NewRecord(instances + 1) ELSE _files[file_path]
    IN
    /\ info_calls < MaxInfoCalls
    /\ info_calls' = info_calls + 1
    /\ instances' = IF fresh THEN instances + 1 ELSE instances
    /\ IF self.classified
       THEN /\ returned' = [path |-> file_path, id |-> self.id]
            /\ err' = ""
            /\ fail_cause' = ""
            /\ UNCHANGED <<ffprobe_calls, probe_docs, _total_file_size, _files>>
       ELSE IF _get_ffprobe
       THEN /\ ffprobe_calls' = ffprobe_calls + 1
            /\ \/ \E doc \in RunDocs :
                    LET fmt == doc.format
                        created == format_built(fmt) /\ tracks_built(doc)
                    IN  /\ probe_docs' = Append(probe_docs, doc)
                        /\ _total_file_size' =
                               IF format_counted(fmt)
                               THEN increase_cached_size(
                                        _total_file_size,
                                        int_or_zero(fmt.size).val)
                               ELSE _total_file_size
                        /\ _files' = DictSet(_files, file_path,
                                             [id |-> self.id,
                                              format_built |-> format_built(fmt),
                                              classified |-> created])
                        /\ IF created
                           THEN /\ returned' = [path |-> file_path,
                                                id |-> self.id]
                                /\ err' = ""
                                /\ fail_cause' = ""
                           ELSE info_failed(file_path, "bad_value")
               \/ \E outcome \in ProbeFailures :
                    /\ info_failed(file_path, outcome)
                    /\ _files' = DictSet(_files, file_path, self)
                    /\ UNCHANGED <<probe_docs, _total_file_size>>
       ELSE /\ info_failed(file_path, "tool_missing")
            /\ _files' = DictSet(_files, file_path, self)
            /\ UNCHANGED <<ffprobe_calls, probe_docs, _total_file_size>>
    /\ UNCHANGED <<tasks, runs, task_error, pc, target_files, total_files,
                   processing, extracted, data, probe_log, progress_log,
                   tool_present>>
    /\ UNCHANGED <<_data, reads, read_error>>
    /\ UNCHANGED <<fs_vars, walk_vars, pure_vars, main_vars>>

InitInfoSpec ==
    /\ fs_kind = [n \in Nodes |-> "none"]
    /\ fs_name = [n \in Nodes |-> Name_ab]
    /\ cfg = [includes |-> <<>>, excludes |-> <<>>,
              extensions |-> SUPPORTED_EXTENSIONS, no_subdir |-> FALSE]
    /\ InitWalk
    /\ InitRun
    /\ InitMedia
    /\ InitMain
    /\ InitTrackIdle /\ InitFormatIdle /\ InitVideoIdle
    /\ InitDurationIdle /\ InitLangIdle /\ InitGetIdle

NextInfo == \E file_path \in InfoPaths : MediaInfo(file_path)

SpecInfo == InitInfoSpec /\ [][NextInfo]_vars

(***************************************************************************)
(* Properties of the walker (checked under SpecWalk).                      *)
(***************************************************************************)
\* The file filter as section 4.1 states it.
PassesFileFilter(p) ==
    /\ is_file(p)
    /\ cfg.includes # <<>> =>
          \E i \in 1..Len(cfg.includes) : Contains(cfg.includes[i], fs_name[p])
    /\ \A i \in 1..Len(cfg.excludes) : ~Contains(cfg.excludes[i], fs_name[p])
    /\ cfg.extensions # <<>> =>
          \E i \in 1..Len(cfg.extensions) : cfg.extensions[i] = suffix(fs_name[p])

\* C1: every path that a call of the walker returns is a file that passes
\* the file filter: its name contains an include keyword when includes is
\* non-empty, contains no exclude keyword, and its extension is in the
\* allow-list when the allow-list is non-empty.
C1_WalkerOutputPassesFilter ==
    walk_status = "returned" =>
        \A i \in 1..Len(walk_result) : PassesFileFilter(walk_result[i])

\* C1's case: a walk of a directory, with include and exclude keywords set,
\* that returned a file and left out a file of the same directory.
C1_Witness ==
    /\ walk_status = "returned"
    /\ is_dir(walk_root)
    /\ cfg.includes # <<>>
    /\ cfg.excludes # <<>>
    /\ walk_result # <<>>
    /\ \E n \in Nodes :
          is_file(n) /\ Parent(n) = walk_root /\ ~InSeq(n, walk_result)

\* C2: a call of the walker whose root is a single existing file returns
\* the empty list or the one-element list [root], whatever calls were made
\* before it in the process.
C2_SingleFileRoot ==
    (walk_status = "returned" /\ is_file(walk_root)) =>
        walk_result \in {<<>>, <<walk_root>>}

\* C3: with no-subdir set, the walker on a directory root returns only
\* files that are immediate children of the root.
C3_NoSubdirOnlyChildren ==
    (walk_status = "returned" /\ is_dir(walk_root) /\ cfg.no_subdir) =>
        \A i \in 1..Len(walk_result) :
            is_file(walk_result[i]) /\ Parent(walk_result[i]) = walk_root

(***************************************************************************)
(* Properties of catalog assembly (checked under Spec).                    *)
(***************************************************************************)
HasMkvSuffix(file) == suffix(fs_name[file]) = Ext_mkv

\* The positions among the first n discovered files that hold a '.mkv' file.
MkvPositions(n) == {j \in 1..n : j <= Len(target_files) /\ HasMkvSuffix(target_files[j])}

\* C4: during catalog assembly a discovered file is probed if and only if
\* its extension is exactly '.mkv': of the files that the loop has reached,
\* those handed to the probe are the '.mkv' ones, files not yet reached are
\* not probed, and every catalog entry is a '.mkv' file.
C4_ProbedIffMkv ==
    /\ \A j \in 1..Len(target_files) :
          InSeq(target_files[j], probe_log) <=>
              (j <= processing /\ HasMkvSuffix(target_files[j]))
    /\ \A i \in 1..Len(probe_log) : InSeq(probe_log[i], target_files)
    /\ \A k \in DOMAIN data : HasMkvSuffix(data[k].path)

\* C4's case: a finished run in which a '.txt' file passed the walker's
\* allow-list next to a '.mkv' file that was probed and catalogued.
C4_Witness ==
    /\ pc = "done"
    /\ \E j \in 1..Len(target_files) : suffix(fs_name[target_files[j]]) = Ext_txt
    /\ \E k \in DOMAIN data : HasMkvSuffix(data[k].path)

\* The position up to which gate-passing files have been fully processed:
\* the file at `processing` is not, while its probe runs or after it failed.
ProcessedUpTo ==
    IF pc = "probe_running" \/ (pc = "failed" /\ err \in ProbeErrors)
    THEN processing - 1
    ELSE processing

\* The position of the j-th '.mkv' file in discovery order.
NthMkv(j) ==
    CHOOSE i \in 1..Len(target_files) :
        HasMkvSuffix(target_files[i]) /\ Cardinality(MkvPositions(i)) = j

C5_Keys ==
    LET k == Cardinality(MkvPositions(ProcessedUpTo))
    IN  /\ DOMAIN data = 1..k
        /\ \A j \in 1..k : data[j].path = target_files[NthMkv(j)]

C5_Kept ==
    \A j \in DOMAIN data : j \in DOMAIN data' /\ data'[j] = data[j]

\* C5: at every point of a run the catalog's key set is {1..k}, k being the
\* number of gate-passing files processed so far, the entry at key j is the
\* j-th gate-passing file in discovery order, and an entry once inserted is
\* never removed or replaced.
C5_CatalogContiguous == [](C5_Keys) /\ [][C5_Kept]_vars

\* C5's case: a finished run with two entries whose keys differ from the
\* files' positions, because the first discovered file fails the gate.
C5_Witness ==
    /\ pc = "done"
    /\ Cardinality(DOMAIN data) = 2
    /\ ~HasMkvSuffix(target_files[1])

\* The probed files in order: the '.mkv' files among the first n discovered.
RECURSIVE MkvPrefix(_)
MkvPrefix(n) ==
    IF n = 0 THEN <<>>
    ELSE IF HasMkvSuffix(target_files[n])
         THEN Append(MkvPrefix(n - 1), target_files[n])
         ELSE MkvPrefix(n - 1)

\* C10: discovery completes or fails before the first probe starts, probes
\* are issued one at a time in discovery order (a probe starts only when
\* every earlier probe has ended and its record is stored), and when the
\* root path does not exist the run fails with the path-not-found error and
\* the probe tool is never invoked.
C10_DiscoveryBeforeProbes ==
    /\ pc \in {"idle", "discovering"} => (probe_log = <<>> /\ ffprobe_calls = 0)
    /\ (~exists(Root) /\ pc \notin {"idle", "discovering"}) =>
          /\ pc = "failed"
          /\ err = "FileNotFoundError"
          /\ probe_log = <<>>
          /\ ffprobe_calls = 0
    /\ probe_log = MkvPrefix(processing)
    /\ ffprobe_calls =
          Cardinality(DOMAIN data)
          + (IF pc = "probe_running"
                \/ (pc = "failed" /\ err \in ProbeErrors \ {"RuntimeError"})
             THEN 1 ELSE 0)

\* C10's case: the run of a root path that does not exist has failed.
C10_Witness ==
    /\ ~exists(Root)
    /\ pc = "failed"
    /\ err = "FileNotFoundError"

(***************************************************************************)
(* Properties of the track classification (checked under SpecTracks).      *)
(***************************************************************************)
KnownTypes == {"video", "audio", "subtitle", "attachment"}

\* The bucket of a record that holds the tracks of one type.
Bucket(rec, tt) ==
    IF tt = "video" THEN rec.video
    ELSE IF tt = "audio" THEN rec.audio
    ELSE IF tt = "subtitle" THEN rec.subtitle
    ELSE rec.attach

TypeTotal(rec, tt) ==
    IF tt = "video" THEN total_video_tracks(rec)
    ELSE IF tt = "audio" THEN total_audio_tracks(rec)
    ELSE IF tt = "subtitle" THEN total_subtitle_tracks(rec)
    ELSE total_attach_tracks(rec)

\* The positions of the document's streams of type tt that report index idx.
PositionsOf(doc, tt, idx) ==
    {p \in 1..Len(doc) : doc[p].codec_type = tt /\ doc[p].index = idx}

FirstPosition(P) == CHOOSE p \in P : \A q \in P : p <= q

\* The codec that _extract_*_info gives the track of a stream.
CodecOf(stream) ==
    IF stream.codec_name = Absent THEN "Unknown" ELSE stream.codec_name

\* C6: when a document holds several streams of one type with one index,
\* the type's bucket keeps the first of them in document order under that
\* index, and the per-type total counts the index once.
C6_FirstDuplicateWins ==
    tpc = "done" =>
        \A tt \in KnownTypes :
            LET reported == {idx \in Indices \ {None} :
                                PositionsOf(raw_info, tt, idx) # {}}
            IN  /\ DOMAIN Bucket(info, tt) = reported
                /\ TypeTotal(info, tt) = Cardinality(reported)
                /\ \A idx \in reported :
                      LET first == raw_info[FirstPosition(PositionsOf(raw_info, tt, idx))]
                      IN  /\ Bucket(info, tt)[idx].index = idx
                          /\ Bucket(info, tt)[idx].codec = CodecOf(first)

\* C6's case: two streams of one type and one index that differ in codec
\* have been classified.
C6_Witness ==
    /\ tpc = "done"
    /\ \E p, q \in 1..Len(raw_info) :
          /\ p < q
          /\ raw_info[p].codec_type = raw_info[q].codec_type
          /\ raw_info[p].codec_type \in KnownTypes
          /\ raw_info[p].index = raw_info[q].index
          /\ raw_info[p].index # None
          /\ raw_info[p].codec_name # raw_info[q].codec_name

IsUnrecognized(stream) == stream.codec_type \notin KnownTypes

\* The values of a Python dict.
Values(d) == {d[k] : k \in DOMAIN d}

IsDropped(stream) == IsUnrecognized(stream) \/ stream.index = None

\* The document without its streams of no known type.
WithoutUnrecognized(doc) == SelectSeq(doc, LAMBDA st : ~IsUnrecognized(st))

\* The document without its streams of a known type that report no index.
WithoutIndexless(doc) ==
    SelectSeq(doc, LAMBDA st : ~(st.codec_type \in KnownTypes /\ st.index = None))

\* C7: a stream whose codec_type is absent or is none of video, audio,
\* subtitle, attachment is skipped: it is in no bucket, not in the index
\* map and not in the tracks-by-type lists, it changes no total and not the
\* font counter, and the streams after it are still processed (the record
\* is the one built from the document's other streams).
C7_UnrecognizedSkipped ==
    tpc = "done" =>
        /\ info = tracks_data(WithoutUnrecognized(raw_info))
        /\ Values(info.tracks) \subseteq KnownTypes
        /\ DOMAIN info.tracks_by_type \subseteq KnownTypes
        /\ total_tracks(info) =
              Cardinality({raw_info[p].index :
                              p \in {q \in 1..Len(raw_info) : ~IsDropped(raw_info[q])}})

\* C7's case: a stream of no known type that reports an index, followed by
\* a stream of a known type that was classified.
C7_Witness ==
    /\ tpc = "done"
    /\ \E p, q \in 1..Len(raw_info) :
          /\ p < q
          /\ IsUnrecognized(raw_info[p])
          /\ raw_info[p].index # None
          /\ ~IsDropped(raw_info[q])
          /\ raw_info[q].index # raw_info[p].index
          /\ raw_info[q].index \in DOMAIN info.tracks

FontPositions(doc) ==
    {p \in 1..Len(doc) :
        doc[p].codec_type = "attachment" /\ doc[p].codec_name \in FontCodecs}

\* C9 as stated: total_fonts equals the number of attachment streams whose
\* codec_name is one of ttf, ttc, woff, woff2, whether or not each was
\* inserted into the attachment bucket.
C9_FontsCountAllAttachments ==
    tpc = "done" => total_fonts(info) = Cardinality(FontPositions(raw_info))

\* C9, amended: total_fonts equals the number of attachment streams that
\* report an index and whose codec_name is one of ttf, ttc, woff, woff2,
\* whether or not each was inserted into the attachment bucket.
C9_FontsCountIndexedAttachments ==
    tpc = "done" =>
        total_fonts(info) =
            Cardinality({p \in FontPositions(raw_info) : raw_info[p].index # None})

\* C9's case: two font attachments with one index, of which the bucket
\* holds one and the counter counts both.
C9_Witness ==
    /\ tpc = "done"
    /\ total_fonts(info) = 2
    /\ total_attach_tracks(info) = 1

(***************************************************************************)
(* Properties of failing runs (checked under Spec).                        *)
(***************************************************************************)
\* C11: when the probe executable cannot be resolved, the first probe
\* attempt of the run fails with the tool-not-found error (RuntimeError in
\* the code), the tool is never invoked, no later file is handed to the
\* probe, and no catalog, not even an empty or partial one, is bound for the
\* caller of the run.
C11_ToolMissingAborts ==
    ~tool_present =>
        /\ ffprobe_calls = 0
        /\ Len(probe_log) <= 1
        /\ Len(probe_log) = 1 =>
              /\ pc = "failed"
              /\ err = "RuntimeError"
              /\ probe_log[1] = target_files[processing]
              /\ MkvPositions(processing) = {processing}
              /\ ~_data.bound
              /\ main_state # "returned"

\* C11's case: the tool is missing, the first '.mkv' file was attempted, a
\* later '.mkv' file was never reached, and main has ended.
C11_Witness ==
    /\ ~tool_present
    /\ Len(probe_log) = 1
    /\ \E j \in (processing + 1)..Len(target_files) : HasMkvSuffix(target_files[j])
    /\ main_state = "exited"

\* The three failure kinds of the probe as the claim groups them.
FailureKind(cause) ==
    IF cause = "tool_missing" THEN "tool missing"
    ELSE IF cause = "nonzero_exit" THEN "non-zero exit"
    ELSE "empty or unparsable output"

RawDataCauses == {"tool_missing", "nonzero_exit", "empty_stdout", "bad_json"}

\* C12: _get_raw_data reports its three failure kinds (tool missing, tool
\* exited non-zero, output empty or unparsable) with three mutually
\* distinguishable errors: whenever it has failed, the error it raised is
\* the one that every cause of the same kind raises and that no cause of
\* another kind raises.
C12_ThreeDistinctErrors ==
    (pc = "failed" /\ fail_cause \in RawDataCauses) =>
        \A other \in RawDataCauses :
            (ProbeError(other) = err) <=>
                (FailureKind(other) = FailureKind(fail_cause))

\* C13: when probing or extracting a file fails, the run aborts: the error
\* leaves catalog assembly at once (the file is not skipped), no file after
\* it in discovery order is probed, no entry is added for it or for a later
\* file, and no catalog is bound.
C13_Aborted ==
    (pc = "failed" /\ fail_cause # "") =>
        /\ err = (IF fail_cause = "tool_missing" THEN "RuntimeError"
                  ELSE IF fail_cause = "bad_json" THEN "JSONDecodeError"
                  ELSE IF fail_cause = "bad_value" THEN "ValueError"
                  ELSE "QueryError")
        /\ probe_log = MkvPrefix(processing)
        /\ probe_log[Len(probe_log)] = target_files[processing]
        /\ DOMAIN data = 1..(Len(probe_log) - 1)
        /\ \A k \in DOMAIN data : data[k].path = probe_log[k]
        /\ ~_data.bound

C13_FailureEndsAssembly ==
    /\ fail_cause' # fail_cause => (pc' = "failed" /\ data' = data)
    /\ pc = "failed" =>
          /\ pc' = "failed"
          /\ err' = err
          /\ probe_log' = probe_log
          /\ data' = data
          /\ ffprobe_calls' = ffprobe_calls
          /\ _data' = _data

C13_FailureAbortsRun == [](C13_Aborted) /\ [][C13_FailureEndsAssembly]_vars

\* C13's case: the extraction of a '.mkv' file failed on a value of its
\* document, and a later '.mkv' file was never reached.
C13_Witness ==
    /\ pc = "failed"
    /\ fail_cause = "bad_value"
    /\ main_state = "exited"
    /\ \E j \in (processing + 1)..Len(target_files) : HasMkvSuffix(target_files[j])

FatalErrors ==
    {"FileNotFoundError", "RuntimeError", "QueryError", "JSONDecodeError",
     "ValueError", "TaskExistsError"}

\* C14: every fatal error raised during a run reaches main, which prints a
\* message and terminates the process with a non-zero exit status; main
\* never returns normally after such an error.
C14_Ended ==
    /\ main_state = "returned" =>
          /\ pc = "done"
          /\ task_error = ""
          /\ exit_code = None
          /\ main_message = ""
    /\ main_state = "exited" =>
          /\ exit_code = 1
          /\ main_message \in FatalErrors
          /\ main_message = (IF task_error # "" THEN task_error ELSE err)
    /\ (pc = "failed" /\ task_error = "") =>
          (err \in FatalErrors /\ main_state \in {"running", "exited"})

C14_MainEnds ==
    (main_state = "running" /\ main_state' # "running") =>
        IF task_error # "" \/ pc = "failed"
        THEN main_state' = "exited" /\ exit_code' = 1
        ELSE main_state' = "returned"

C14_FatalErrorsExitNonZero == [](C14_Ended) /\ [][C14_MainEnds]_vars

\* C14's case: the probe's output was not JSON and main has exited with
\* status 1 after printing that error.
C14_Witness ==
    /\ main_state = "exited"
    /\ fail_cause = "bad_json"
    /\ main_message = "JSONDecodeError"
    /\ exit_code = 1

(***************************************************************************)
(* Properties of the byte counter, the registry and the progress output    *)
(* (checked under Spec; C16 under SpecRead).                               *)
(***************************************************************************)
\* format.size of a probe document as the format summary reports it.
DocSize(doc) ==
    IF doc.format.size = Missing THEN 0
    ELSE IF IsDigits(doc.format.size[1]) THEN DigitsValue(doc.format.size[1])
    ELSE 0

\* The summary of a document was built: size, duration and bit rate are
\* missing or numbers.
SummaryBuilt(doc) ==
    /\ doc.format.size = Missing \/ IsDigits(doc.format.size[1])
    /\ doc.format.duration = Missing \/ float(doc.format.duration[1]).ok
    /\ doc.format.bit_rate = Missing \/ IsDigits(doc.format.bit_rate[1])

\* Size and duration of a document were converted (line 240 was reached).
SizeConverted(doc) ==
    /\ doc.format.size = Missing \/ IsDigits(doc.format.size[1])
    /\ doc.format.duration = Missing \/ float(doc.format.duration[1]).ok

RECURSIVE SumOfBuilt(_)
SumOfBuilt(docs) ==
    IF docs = <<>> THEN 0
    ELSE SumOfBuilt(Tail(docs))
         + (IF SummaryBuilt(Head(docs)) THEN DocSize(Head(docs)) ELSE 0)

RECURSIVE SumOfConverted(_)
SumOfConverted(docs) ==
    IF docs = <<>> THEN 0
    ELSE SumOfConverted(Tail(docs))
         + (IF SizeConverted(Head(docs)) THEN DocSize(Head(docs)) ELSE 0)

C15_NeverDecreases == _total_file_size' >= _total_file_size

\* C15 as stated: the cumulative byte counter never decreases and is never
\* reset during a run, and after any sequence of probes it equals the sum of
\* format.size over all probe documents whose format summary was built so
\* far, each counted once per probe.
C15_CounterSumsBuiltSummaries ==
    [](_total_file_size = SumOfBuilt(probe_docs)) /\ [][C15_NeverDecreases]_vars

\* C15, amended: the counter never decreases and equals the sum of
\* format.size over all probe documents whose size and duration were
\* converted, each counted once per probe: that includes a document whose
\* summary then fails on its bit rate.
C15_CounterSumsConvertedSizes ==
    [](_total_file_size = SumOfConverted(probe_docs)) /\ [][C15_NeverDecreases]_vars

\* C15's case: two documents were counted, and the second one's summary
\* failed after the counter had been raised.
C15_Witness ==
    /\ pc = "failed"
    /\ Len(probe_docs) = 2
    /\ SizeConverted(probe_docs[2])
    /\ ~SummaryBuilt(probe_docs[2])
    /\ DocSize(probe_docs[1]) > 0
    /\ _total_file_size = DocSize(probe_docs[1]) + DocSize(probe_docs[2])

\* C16: once catalog assembly has reached Done, a read of the public
\* interface (a lookup of a present or absent key in the catalog, or
\* total_files) leaves the catalog's key set, the cumulative byte counter
\* and the number of probe invocations unchanged.
C16_ReadChangesNothing ==
    reads' # reads =>
        /\ DOMAIN _data'.catalog = DOMAIN _data.catalog
        /\ _total_file_size' = _total_file_size
        /\ ffprobe_calls' = ffprobe_calls

C16_ReadsChangeNothing == [][C16_ReadChangesNothing]_vars

\* C17: no per-file record reachable through the catalog or through
\* MediaInfo.get_files is ever partial: once catalog assembly has ended,
\* with or without an error, every registered record has its format summary
\* built and all of its streams classified.
C17_NoPartialRecord ==
    pc \in {"done", "failed"} =>
        /\ \A f \in DOMAIN _files : _files[f].format_built /\ _files[f].classified
        /\ _data.bound =>
              \A k \in DOMAIN _data.catalog :
                  /\ _data.catalog[k].path \in DOMAIN _files
                  /\ _files[_data.catalog[k].path].classified

\* The position in discovery order of the i-th probed file.
ProbedPosition(i) ==
    CHOOSE j \in 1..Len(target_files) :
        target_files[j] = probe_log[i] /\ Cardinality(MkvPositions(j)) = i

C18_Emitted ==
    /\ Len(progress_log) = processing
    /\ processing <= Len(target_files)
    /\ \A j \in 1..Len(progress_log) : progress_log[j] = <<j, Len(target_files)>>
    /\ \A i \in 1..Len(probe_log) :
          /\ ProbedPosition(i) <= Len(progress_log)
          /\ progress_log[ProbedPosition(i)][1] = ProbedPosition(i)

C18_OnePerProbe ==
    probe_log' # probe_log =>
        /\ Len(probe_log') = Len(probe_log) + 1
        /\ Len(progress_log') = Len(progress_log) + 1
        /\ SubSeq(progress_log', 1, Len(progress_log)) = progress_log
        /\ target_files[progress_log'[Len(progress_log')][1]]
              = probe_log'[Len(probe_log')]

\* C18: immediately before each probe, catalog assembly emits exactly one
\* progress notification 'i of totalDiscovered', totalDiscovered being the
\* number of all files returned by the walker (files that the '.mkv' gate
\* skips included) and i the 1-based position of the file about to be
\* probed; the values of i are strictly increasing and never exceed
\* totalDiscovered.
C18_ProgressBeforeProbe == [](C18_Emitted) /\ [][C18_OnePerProbe]_vars

\* C18's case: a finished run over a '.txt' file and a '.mkv' file, whose
\* notifications count both files.
C18_Witness ==
    /\ pc = "done"
    /\ probe_log # <<>>
    /\ \E j \in 1..Len(target_files) : ~HasMkvSuffix(target_files[j])
    /\ progress_log[Len(progress_log)] = <<Len(target_files), Len(target_files)>>

(***************************************************************************)
(* Properties of the format summary (checked under SpecFormat).            *)
(***************************************************************************)
\* The defaults of the fields other than format_long_name.
C19_OtherDefaults ==
    /\ format_in.probe_score = Missing => format_out.data.score = 0
    /\ format_in.size = Missing => format_out.data.size = 0
    /\ format_in.duration = Missing => format_out.data.duration = 0
    /\ format_in.bit_rate = Missing => format_out.data.bitrate = 0
    /\ format_in.format_name = Missing => format_out.data.format = "Unknown"
    /\ format_in.ENCODER = Missing => format_out.data.encoder = "Unknown"
    /\ format_in.ENCODING_INFO = Missing => format_out.data.encoding_info = "Unknown"

\* C19 as stated: in the format summary built by _get_format_data each
\* numeric field (score, size, duration, bitrate) is 0 when its key is
\* missing from the format block, and each string field (format,
\* format_long_name, encoder, encoding_info) is "Unknown" when its key is
\* missing, independently of which other keys are present.
C19_MissingKeysDefault ==
    (fpc = "done" /\ format_out.ok) =>
        /\ C19_OtherDefaults
        /\ format_in.format_long_name = Missing =>
              format_out.data.format_long_name = "Unknown"

\* C19, amended: as stated for score, size, duration, bitrate, format,
\* encoder and encoding_info; a missing format_long_name takes the value of
\* the summary's format field, that is format_name when that key is present
\* and "Unknown" only when it is missing too.
C19_LongNameFallsBackToFormat ==
    (fpc = "done" /\ format_out.ok) =>
        /\ C19_OtherDefaults
        /\ format_in.format_long_name = Missing =>
              /\ format_out.data.format_long_name = format_out.data.format
              /\ format_in.format_name # Missing =>
                    format_out.data.format_long_name = format_in.format_name[1]
        /\ format_in.format_long_name # Missing =>
              format_out.data.format_long_name = format_in.format_long_name[1]

\* C19's case: a summary built from a block that has format_name and lacks
\* format_long_name, size and ENCODER.
C19_Witness ==
    /\ fpc = "done"
    /\ format_out.ok
    /\ format_in.format_long_name = Missing
    /\ format_in.format_name # Missing
    /\ format_in.size = Missing
    /\ format_in.ENCODER = Missing
    /\ format_out.data.format_long_name = "matroska,webm"

(***************************************************************************)
(* Properties of the frame rate (checked under SpecVideo).                 *)
(***************************************************************************)
AbsentOrEmptyDuration == video_in.DURATION \in {Missing, Present(<<>>)}
AbsentFrames == video_in.NUMBER_OF_FRAMES = Missing

\* The tags convert: DURATION is absent, empty or H:M:S with numeric
\* parts, and NUMBER_OF_FRAMES is absent or an integer literal.
WellFormedTags ==
    /\ \/ AbsentOrEmptyDuration
       \/ LET parts == split(video_in.DURATION[1], ":")
          IN  Len(parts) = 3 /\ \A i \in 1..3 : float(parts[i]).ok
    /\ AbsentFrames \/ IsDigits(video_in.NUMBER_OF_FRAMES[1])

\* The zero cases: the parsed duration or the frame count is 0.
ZeroCase ==
    \/ AbsentOrEmptyDuration
    \/ AbsentFrames
    \/ video_out.ok /\ (video_out.duration_sec = 0 \/ video_out.total_frames = 0)

\* frame_count / duration_seconds, exactly, in units of 10^-5.
ExactQuotient ==
    LET q == frames_per_second(video_out.total_frames, video_out.duration_sec)
    IN  q.rem = 0 /\ video_out.fps = q.quot

\* frame_count / duration_seconds to the nearest multiple of 10^-5.
RoundedQuotient ==
    LET q == frames_per_second(video_out.total_frames, video_out.duration_sec)
        d == video_out.duration_sec
    IN  /\ video_out.fps \in {q.quot, q.quot + 1}
        /\ 2 * q.rem < d => video_out.fps = q.quot
        /\ 2 * q.rem > d => video_out.fps = q.quot + 1
        /\ 2 * q.rem = d => video_out.fps % 2 = 0

C21_DurationRoundTrip ==
    dpc = "done" =>
        LET parts == split(dur_str, ":")
        IN  /\ Len(parts) = 3
            /\ Len(parts[1]) >= 2 /\ IsDigits(parts[1])
            /\ Len(parts[2]) = 2 /\ IsDigits(parts[2])
            /\ DigitsValue(parts[2]) < 60
            /\ Len(parts[3]) = 6
            /\ IsDigits(SubSeq(parts[3], 1, 2))
            /\ parts[3][3] = "."
            /\ IsDigits(SubSeq(parts[3], 4, 6))
            /\ DigitsValue(SubSeq(parts[3], 1, 2)) < 60
            /\ dur_back = [ok |-> TRUE, val |-> dur_in]

\* C21's case: 1 h 2 min 3.456 s is formatted as 01:02:03.456 and parsed
\* back to 3723.456 s.
C21_Witness ==
    /\ dpc = "done"
    /\ dur_in = 3723456
    /\ dur_str = <<"0", "1", ":", "0", "2", ":", "0", "3", ".", "4", "5", "6">>
    /\ dur_back.val = 3723456

(***************************************************************************)
(* Further properties of the walker (checked under SpecWalk).              *)
(***************************************************************************)
\* The directories above a path, up to the top of the tree.
RECURSIVE Ancestors(_)
Ancestors(n) == IF n <= Root THEN {} ELSE {Parent(n)} \cup Ancestors(Parent(n))

\* The directory filter as section 4.1 states it: keywords against the
\* directory's own name, extensions not checked.
PassesDirFilter(p) ==
    /\ is_dir(p)
    /\ cfg.includes # <<>> =>
          \E i \in 1..Len(cfg.includes) : Contains(cfg.includes[i], fs_name[p])
    /\ \A i \in 1..Len(cfg.excludes) : ~Contains(cfg.excludes[i], fs_name[p])

\* A file below root that passes the file filter, all directories strictly
\* between root and the file passing the directory filter.
Reachable(root, n) ==
    /\ root \in Ancestors(n)
    /\ PassesFileFilter(n)
    /\ \A a \in Ancestors(n) : root \in Ancestors(a) => PassesDirFilter(a)

Occurrences(x, seq) == Cardinality({i \in 1..Len(seq) : seq[i] = x})

\* C22: with no-subdir unset, the walker on a directory root returns a file
\* if and only if the file passes the file filter and every directory
\* strictly between root and the file passes the directory filter; root
\* itself is never filtered, and each such file is returned exactly once.
C22_WalkReturnsReachableOnce ==
    (walk_status = "returned" /\ is_dir(walk_root) /\ ~cfg.no_subdir) =>
        \A n \in Nodes :
            Occurrences(n, walk_result) = (IF Reachable(walk_root, n) THEN 1 ELSE 0)

\* C23: the list returned by a walker call contains only paths found by
\* that call: every path is the root or lies below it and occurs once,
\* nothing of the list that an earlier call returned is carried over, so a
\* call returns what a first call on the same tree returns.
C23_NothingCarriedOver ==
    walk_status = "returned" =>
        /\ \A i \in 1..Len(walk_result) :
              /\ walk_result[i] = walk_root \/ walk_root \in Ancestors(walk_result[i])
              /\ Occurrences(walk_result[i], walk_result) = 1
        /\ walk_result = _search_files(walk_root, <<>>)

(***************************************************************************)
(* Further properties of the track classification (checked under           *)
(* SpecTracks; C28 under SpecGet).                                         *)
(***************************************************************************)
\* The listing of a type in tracks_by_type, empty when the type has none.
Listing(rec, tt) ==
    IF tt \in DOMAIN rec.tracks_by_type THEN rec.tracks_by_type[tt] ELSE <<>>

\* C24: in every finished per-file record, the tracks-by-type listing of
\* each type contains every index at most once and lists exactly the
\* indices stored in that type's bucket, so its length equals the per-type
\* total, also when the document has several streams of one type with the
\* same index.
C24_ListingMatchesBucket ==
    tpc = "done" =>
        \A tt \in KnownTypes :
            /\ \A i \in 1..Len(Listing(info, tt)) :
                  Occurrences(Listing(info, tt)[i], Listing(info, tt)) = 1
            /\ {Listing(info, tt)[i] : i \in 1..Len(Listing(info, tt))}
                  = DOMAIN Bucket(info, tt)
            /\ Len(Listing(info, tt)) = TypeTotal(info, tt)

\* C27: in every finished per-file record, total_tracks equals
\* total_video_tracks + total_audio_tracks + total_subtitle_tracks +
\* total_attach_tracks, for every probe document, including documents where
\* streams of different types report the same index.
C27_TotalIsSumOfTypes ==
    tpc = "done" =>
        total_tracks(info) =
            total_video_tracks(info) + total_audio_tracks(info)
            + total_subtitle_tracks(info) + total_attach_tracks(info)

C28_Found ==
    (tpc = "done" /\ gets > 0) =>
        IF got.index \in DOMAIN info.tracks
        THEN /\ got.found
             /\ got.track.index = got.index
             /\ got.kind = info.tracks[got.index]
             /\ got.index \in DOMAIN Bucket(info, got.kind)
             /\ got.track = Bucket(info, got.kind)[got.index]
        ELSE ~got.found

C28_RecordKept == gets' # gets => info' = info

\* C28: in every finished per-file record and for every index i in the
\* index map, get(i) returns a stored track (never None) whose index field
\* is i and whose kind is the type recorded for i in the index map; for
\* every i not in the index map get(i) returns None without changing the
\* record.
C28_GetReturnsStoredTrack == [](C28_Found) /\ [][C28_RecordKept]_vars

(***************************************************************************)
(* The language of a track (checked under SpecLang).                       *)
(***************************************************************************)
\* C26: for every track kind that carries a language (video, audio,
\* subtitle), the track's language is the table's name of the stream's
\* tags.language code when that code is in the table, and "Unknown"
\* otherwise; a stream tagged tags.language = "eng" yields "English" for
\* all three kinds.
C26_LanguageFromTags ==
    lpc = "done" =>
        /\ lang_out = language_lookup(Get(lang_in.tags_language, ""))
        /\ (lang_in.tags_language = Present("eng") => lang_out = "English")

(***************************************************************************)
(* Direct constructions of MediaInfo (checked under SpecInfo).             *)
(***************************************************************************)
\* A construction for a path whose registered object was fully built.
C25_SecondConstruction ==
    /\ info_calls' # info_calls
    /\ returned'.path \in DOMAIN _files
    /\ _files[returned'.path].classified

C25_SameObjectNoProbeNoCount ==
    C25_SecondConstruction =>
        /\ returned'.id = _files[returned'.path].id
        /\ ffprobe_calls' = ffprobe_calls
        /\ _total_file_size' = _total_file_size

\* C25: MediaInfo is a singleton per file path within a run: constructing
\* MediaInfo a second time for a path that already has an instance returns
\* that same object, does not invoke the probe tool again and does not add
\* the file's size to the byte counter a second time.
C25_SingletonPerPath == [][C25_SameObjectNoProbeNoCount]_vars

(***************************************************************************)
(* The task registry after a failed construction (checked under Spec).     *)
(***************************************************************************)
C29_NoTaskLeft == pc = "failed" => Root \notin tasks

C29_NextNotRejected ==
    (runs' # runs /\ pc = "failed") => task_error' # "TaskExistsError"

\* C29: a processor construction that fails (for example with the
\* path-not-found error during discovery) leaves no task registered for its
\* config path, so a later construction for the same path is not rejected
\* with TaskExistsError.
C29_FailedConstructionUnregisters ==
    [](C29_NoTaskLeft) /\ [][C29_NextNotRejected]_vars

====
